---- MODULE Spec2Model ----
(***************************************************************************)
(* Model of the pipeline coordination layer of elise_ai:                   *)
(*   src/src/model/event.py        EventData        (the "Mailbox")        *)
(*   src/src/model/queue_event.py  QueuedEventData  (the "BatchQueue")     *)
(*   src/src/model/pipeline.py     PipelineController ("TurnController")   *)
(*   src/src/tasks.py              transcribe / chat / speech workers      *)
(*   src/src/main.py               run_pipeline_cycle (the owning scope)   *)
(*                                                                         *)
(* Every coroutine is a task with a program counter pc[t].  A step of a    *)
(* task is the code it runs between two suspensions of the asyncio loop.   *)
(* Any runnable task may be the next to run.                               *)
(*                                                                         *)
(* Python values are sequences of one-character strings; None is the one   *)
(* sequence whose element is no character.                                 *)
(***************************************************************************)
EXTENDS Naturals, Sequences, FiniteSets

VARIABLES
  mbox,                \* mailbox id -> EventData (data, event_set, event_processed)
  speech_queue,        \* QueuedEventData (queue, closed, batch_complete)
  cancel_requested,    \* PipelineController._cancel_requested
  completed,           \* PipelineController._completed
  initial_audio_data,  \* PipelineController._initial_audio_data
  initial_text_input,  \* PipelineController._initial_text_input
  pc,                  \* task -> position in its coroutine
  val,                 \* task -> the value it is setting / the value its get returned
  response_received,   \* chat_worker's local flag
  chatYielded,         \* history: fragments the chat collaborator has yielded
  said,                \* history: texts handed to voice.say, in call order
  logged,              \* history: logger.error calls, as <<logger, error>>
  cleanups,            \* history: number of cleanup() calls
  exitPath,            \* history: how the controller's scope was left
  ctorArgs,            \* history: arguments of the PipelineController(...) call
  nWrites,             \* history: mailbox id -> number of completed set()
  lastSet,             \* history: mailbox id -> the value of the last completed set()
  wokeAt,              \* history: task -> nWrites of the set() that woke its get
  lastRet,             \* history: task -> nWrites when its last get returned
  retLog,              \* history: gets that returned, in order
  setCalls,            \* history: number of set() calls issued by harness tasks
  getCalls,            \* history: number of get() calls issued by harness tasks
  resetsTried,         \* history: primitives whose reset() cleanup() has called
  completeCalls,       \* history: number of complete() calls issued by harness tasks
  qCalls,              \* history: number of queue method calls issued by harness tasks
  putSeq,              \* history: items put() has enqueued, in order
  taken,               \* history: items removed from the queue, in order, and by what
  waitsDone            \* history: number of wait_for_batch_completion() returns

vars ==
  <<mbox, speech_queue, cancel_requested, completed, initial_audio_data,
    initial_text_input, pc, val, response_received, chatYielded, said, logged,
    cleanups, exitPath, ctorArgs, nWrites, lastSet, wokeAt, lastRet, retLog,
    setCalls, getCalls, resetsTried, completeCalls, qCalls, putSeq, taken,
    waitsDone>>

---------------------------------------------------------------------------
(* Values *)

None ==
  <<"None">>

AudioData ==
  <<"pcm">>

TextInputs ==
  {<<"h", "i">>}

\* What transcriber.transcribe_buffer may return (Optional[str]).
Transcripts ==
  {None, <<>>, <<".", " ">>, <<"h", "i">>}

\* What the chat collaborator may yield.
Fragments ==
  {<<"H", "i">>, <<" ", "t", "h", "e", "r", "e">>}

\* Values the harness tasks hand to EventData.set.
BoxValues ==
  {<<"a">>, <<"b">>}

AlnumChars ==
  {"a", "b", "h", "i", "t", "e", "r", "H"}

\* any(char.isalnum() for char in result)
HasAlnum(s) ==
  \E i \in DOMAIN s : s[i] \in AlnumChars

\* Bounds of the model.
MaxFragments ==
  2

MaxSets ==
  2

MaxGets ==
  2

MaxCompletes ==
  2

MaxCalls ==
  5

---------------------------------------------------------------------------
(* Methods the classes define: a call of any other name raises             *)
(* AttributeError.                                                         *)

EventDataMethods ==
  {"set", "get", "get_nowait", "task_done"}

ControllerMethods ==
  {"complete", "request_cancellation", "cleanup", "is_cancellation_requested",
   "is_completed", "wait_for_completion", "set_audio_data", "get_audio_data",
   "set_input_text", "get_input_text", "add_to_speech_queue",
   "get_from_speech_queue", "speech_queue_task_done",
   "mark_speech_batch_complete", "speech_batch_is_complete"}

---------------------------------------------------------------------------
(* EventData *)

\* EventData.__post_init__: no data, not ready, "processed".
NewEventData ==
  [data |-> None, event_set |-> FALSE, event_processed |-> TRUE]

\* Faulty variant of SetMayProceed: set does not wait for the acknowledgement.
SetNeverWaits(e) ==
  TRUE

\* EventData.set, line 28: the caller goes on only if the previous value
\* has been acknowledged.
SetMayProceed(e) ==
  e.event_processed

\* EventData.set, lines 30-34.
EvWrite(e, v) ==
  [e EXCEPT !.data = v, !.event_processed = FALSE, !.event_set = TRUE]

\* EventData.get, line 39: the caller goes on without suspending only if
\* a value is ready.
GetMayProceed(e) ==
  e.event_set

\* Faulty variant of EvTake: get leaves the mailbox ready.
EvTakeKeepsReady(e) ==
  e

\* EventData.get, lines 41-43 (and get_nowait, lines 49-50).
EvTake(e) ==
  [e EXCEPT !.event_set = FALSE]

\* EventData.task_done.
EvTaskDone(e) ==
  [e EXCEPT !.event_processed = TRUE]

---------------------------------------------------------------------------
(* QueuedEventData *)

NewQueue ==
  [queue |-> <<>>, closed |-> FALSE, batch_complete |-> FALSE]

\* Faulty variant of QPut: the item is put at the head.
QPutFront(q, x) ==
  IF q.closed THEN q ELSE [q EXCEPT !.queue = <<x>> \o @]

\* QueuedEventData.put: dropped on a closed queue, appended otherwise
\* (maxsize 0: the put never waits).
QPut(q, x) ==
  IF q.closed THEN q ELSE [q EXCEPT !.queue = Append(@, x)]

\* QueuedEventData.mark_batch_complete.
QMarkBatchComplete(q) ==
  [q EXCEPT !.batch_complete = TRUE]

\* QueuedEventData.reset.
QReset(q) ==
  [q EXCEPT !.queue = <<>>, !.closed = FALSE, !.batch_complete = FALSE]

\* QueuedEventData.get, lines 61-63: None at once on a closed, empty queue.
QGetReturnsNone(q) ==
  q.closed /\ q.queue = <<>>

\* asyncio.Queue.get / get_nowait: the head is removed.
QTake(q) ==
  [q EXCEPT !.queue = Tail(@)]

\* Faulty variant of QClose: closing forgets the batch mark.
QCloseClearsBatch(q) ==
  [q EXCEPT !.closed = TRUE, !.batch_complete = FALSE]

\* QueuedEventData.close.
QClose(q) ==
  [q EXCEPT !.closed = TRUE]

\* Faulty variant of QWaitMayProceed: the wait does not look at the flag.
QWaitNeverSuspends(q) ==
  TRUE

\* QueuedEventData.wait_for_batch_completion, line 51: the caller goes on
\* without suspending only if the batch is marked complete.
QWaitMayProceed(q) ==
  q.batch_complete

\* Faulty variant of QClearBatch: the pending items are dropped too.
QClearBatchDropsItems(q) ==
  [q EXCEPT !.batch_complete = FALSE, !.queue = <<>>]

\* QueuedEventData.wait_for_batch_completion, line 52.
QClearBatch(q) ==
  [q EXCEPT !.batch_complete = FALSE]

\* QueuedEventData.is_batch_complete.
QIsBatchComplete(q) ==
  q.batch_complete

---------------------------------------------------------------------------
(* Tasks *)

Workers ==
  {"transcribe", "chat", "speech"}

\* The tasks run_pipeline_cycle creates in its TaskGroup (main.py, lines
\* 99-122 and 130-148).
GroupTasks ==
  Workers \cup {"input"}

CancelTasks ==
  {"cancel_audio", "cancel_input", "cancel_speech"}

PipelineTasks ==
  {"main", "client"} \cup Workers \cup CancelTasks

Setters ==
  {"s1", "s2"}

Getters ==
  {"g1", "g2"}

HarnessTasks ==
  Setters \cup Getters

\* Tasks that await wait_for_completion() on a controller.
Waiters ==
  {"w1", "w2"}

CtlTasks ==
  {"main"} \cup Waiters \cup CancelTasks

\* Tasks that await get() / call get_nowait() on a QueuedEventData.
Consumers ==
  {"c1", "c2"}

\* Tasks that await wait_for_batch_completion() on a QueuedEventData.
BatchWaiters ==
  {"b1", "b2"}

QueueTasks ==
  Consumers \cup BatchWaiters

\* Faulty variant of SeededBox: the text mailbox is seeded whatever was given.
SeededBoxAlwaysInput ==
  "input"

\* PipelineController.__aenter__: the mailbox that is seeded.
SeededBox ==
  IF initial_audio_data # None THEN "audio" ELSE "input"

\* Faulty variant of GetBox: the two get accessors read each other's
\* mailbox.
GetBoxCrossed(t) ==
  CASE t = "transcribe" -> "input"
    [] t = "chat" -> "audio"
    [] t = "client" -> SeededBox
    [] t = "main" -> "source"
    [] OTHER -> "box"

\* The mailbox a task's get reads: get_audio_data reads _audio_event and
\* get_input_text reads _input_event (pipeline.py, lines 163-173).
GetBox(t) ==
  CASE t = "transcribe" -> "audio"
    [] t = "chat" -> "input"
    [] t = "client" -> SeededBox
    [] t = "main" -> "source"
    [] OTHER -> "box"

\* The mailbox a task's set writes.
SetBox(t) ==
  CASE t = "transcribe" -> "input"
    [] t = "cancel_audio" -> "audio"
    [] t = "cancel_input" -> "input"
    [] t = "input" -> "source"
    [] OTHER -> "box"

\* Where a task goes on when its get has returned.
AfterGet(t) ==
  CASE t = "transcribe" -> "transcribing"
    [] t = "chat" -> "chatting"
    [] t = "main" -> "start"
    [] t \in HarnessTasks -> "idle"
    [] OTHER -> "done"

\* Faulty variant of AfterSet: the transcribe worker loops back to the
\* transcriber instead of idling.
AfterSetLoops(t) ==
  CASE t = "transcribe" -> "transcribing"
    [] t \in HarnessTasks -> "idle"
    [] OTHER -> "done"

\* Where a task goes on when its set has returned.
AfterSet(t) ==
  CASE t = "transcribe" -> "poll"
    [] t \in HarnessTasks -> "idle"
    [] OTHER -> "done"

\* asyncio.Event.set on event_set: every task suspended in get on m is woken.
WakeGetters(p, m) ==
  [t \in DOMAIN p |->
     IF p[t] = "get_wait" /\ GetBox(t) = m THEN "get_woken" ELSE p[t]]

\* asyncio.Event.set on event_processed: every task suspended in set on m is woken.
WakeSetters(p, m) ==
  [t \in DOMAIN p |->
     IF p[t] = "set_wait" /\ SetBox(t) = m THEN "set_woken" ELSE p[t]]

---------------------------------------------------------------------------
(* Initial states *)

PipelineInit ==
  /\ mbox = [m \in {"audio", "input"} |-> NewEventData]
  /\ speech_queue = NewQueue
  /\ cancel_requested = FALSE
  /\ completed = FALSE
  /\ initial_audio_data = None
  /\ initial_text_input = None
  /\ pc = [t \in PipelineTasks |-> IF t = "main" THEN "start" ELSE "unborn"]
  /\ val = [t \in PipelineTasks |-> None]
  /\ response_received = FALSE
  /\ chatYielded = <<>>
  /\ said = <<>>
  /\ logged = {}
  /\ cleanups = 0
  /\ exitPath = "none"
  /\ ctorArgs = <<None, None>>
  /\ nWrites = [m \in {"audio", "input"} |-> 0]
  /\ lastSet = [m \in {"audio", "input"} |-> None]
  /\ wokeAt = [t \in PipelineTasks |-> 0]
  /\ lastRet = [t \in PipelineTasks |-> 0]
  /\ retLog = <<>>
  /\ setCalls = 0
  /\ getCalls = 0
  /\ resetsTried = {}
  /\ completeCalls = 0
  /\ qCalls = 0
  /\ putSeq = <<>>
  /\ taken = <<>>
  /\ waitsDone = 0

Init ==
  PipelineInit

ctlVars ==
  <<cancel_requested, completed, initial_audio_data, initial_text_input,
    cleanups, exitPath, ctorArgs, resetsTried>>

workerVars ==
  <<response_received, chatYielded, said, logged>>

boxHist ==
  <<nWrites, lastSet, wokeAt, lastRet, retLog>>

queueHist ==
  <<putSeq, taken, waitsDone>>

harnessVars ==
  <<setCalls, getCalls, completeCalls, qCalls, queueHist>>

---------------------------------------------------------------------------
(* EventData.set and EventData.get, as run by task t *)

\* set, lines 30-34, run by t: the value is stored, the mailbox is marked
\* unacknowledged and ready, and the tasks suspended in get are woken.
DoWrite(t) ==
  LET m == SetBox(t) IN
    /\ mbox' = [mbox EXCEPT ![m] = EvWrite(@, val[t])]
    /\ pc' = [WakeGetters(pc, m) EXCEPT ![t] = AfterSet(t)]
    /\ nWrites' = [nWrites EXCEPT ![m] = @ + 1]
    /\ lastSet' = [lastSet EXCEPT ![m] = val[t]]
    /\ wokeAt' = [u \in DOMAIN wokeAt |->
                    IF pc[u] = "get_wait" /\ GetBox(u) = m
                      THEN nWrites[m] + 1 ELSE wokeAt[u]]

\* get, lines 41-43, run by t: readiness is cleared and the data returned.
DoReturn(t, how) ==
  LET m == GetBox(t) IN
    /\ mbox' = [mbox EXCEPT ![m] = EvTake(@)]
    /\ val' = [val EXCEPT ![t] = mbox[m].data]
    /\ pc' = [pc EXCEPT ![t] = AfterGet(t)]
    /\ lastRet' = [lastRet EXCEPT ![t] = nWrites[m]]
    /\ retLog' = Append(retLog, [task |-> t, value |-> mbox[m].data,
                                 how |-> how, woke |-> wokeAt[t]])

\* A task calls set: it writes at once, or suspends in event_processed.wait().
SetCall(t) ==
  /\ pc[t] = "set"
  /\ IF SetMayProceed(mbox[SetBox(t)])
       THEN DoWrite(t)
       ELSE /\ pc' = [pc EXCEPT ![t] = "set_wait"]
            /\ UNCHANGED <<mbox, nWrites, lastSet, wokeAt>>
  /\ UNCHANGED <<speech_queue, ctlVars, val, workerVars, lastRet, retLog,
                 harnessVars>>

\* A task woken in event_processed.wait() goes on: wait() returns once its
\* future is resolved, whatever the flag is by then.
SetResume(t) ==
  /\ pc[t] = "set_woken"
  /\ DoWrite(t)
  /\ UNCHANGED <<speech_queue, ctlVars, val, workerVars, lastRet, retLog,
                 harnessVars>>

\* A task calls get: it returns at once, or suspends in event_set.wait().
GetCall(t) ==
  /\ pc[t] = "get"
  /\ IF GetMayProceed(mbox[GetBox(t)])
       THEN DoReturn(t, "ready")
       ELSE /\ pc' = [pc EXCEPT ![t] = "get_wait"]
            /\ UNCHANGED <<mbox, val, lastRet, retLog>>
  /\ UNCHANGED <<speech_queue, ctlVars, workerVars, nWrites, lastSet, wokeAt,
                 harnessVars>>

\* A task woken in event_set.wait() goes on: wait() returns once its future
\* is resolved, whatever the flag is by then.
GetResume(t) ==
  /\ pc[t] = "get_woken"
  /\ DoReturn(t, "woken")
  /\ UNCHANGED <<speech_queue, ctlVars, workerVars, nWrites, lastSet, wokeAt,
                 harnessVars>>

---------------------------------------------------------------------------
(* PipelineController *)

\* Faulty variant of CtorRaises: the second check is missing.
CtorRaisesOnlyIfNeither(audio_data, text_input) ==
  audio_data = None /\ text_input = None

\* __init__, lines 54-57: the two ValueError checks.
CtorRaises(audio_data, text_input) ==
  \/ audio_data = None /\ text_input = None
  \/ audio_data # None /\ text_input # None

\* PipelineController(audio_data=..., text_input=...)
Construct(audio_data, text_input) ==
  /\ pc["main"] = "start"
  /\ ctorArgs' = <<audio_data, text_input>>
  /\ IF CtorRaises(audio_data, text_input)
       THEN /\ pc' = [pc EXCEPT !["main"] = "failed"]
            /\ UNCHANGED <<initial_audio_data, initial_text_input>>
       ELSE /\ pc' = [pc EXCEPT !["main"] = "constructed"]
            /\ initial_audio_data' = audio_data
            /\ initial_text_input' = text_input
  /\ UNCHANGED <<mbox, speech_queue, cancel_requested, completed, val,
                 workerVars, cleanups, exitPath, resetsTried, boxHist,
                 harnessVars>>

\* __aenter__: the mailbox of the input that was given is set.  Both
\* mailboxes are fresh, so the set does not suspend.
AEnter ==
  /\ pc["main"] = "constructed"
  /\ SetMayProceed(mbox[SeededBox])
  /\ mbox' = [mbox EXCEPT ![SeededBox] =
                EvWrite(@, IF SeededBox = "audio" THEN initial_audio_data
                                                  ELSE initial_text_input)]
  /\ nWrites' = [nWrites EXCEPT ![SeededBox] = @ + 1]
  /\ lastSet' = [lastSet EXCEPT ![SeededBox] =
                   IF SeededBox = "audio" THEN initial_audio_data
                                         ELSE initial_text_input]
  /\ pc' = [pc EXCEPT !["main"] = "entered"]
  /\ UNCHANGED <<speech_queue, ctlVars, val, workerVars, wokeAt, lastRet,
                 retLog, harnessVars>>

\* run_pipeline_cycle, the body of "async with PipelineController(...)":
\* the workers of the turn are created, then the body suspends in
\* wait_for_completion().
Spawn ==
  /\ pc["main"] = "entered"
  /\ pc' = [t \in DOMAIN pc |->
              CASE t = "main" -> "waiting"
                [] t = "transcribe" ->
                     IF initial_audio_data # None THEN "get" ELSE pc[t]
                [] t = "chat" -> "get"
                [] t = "speech" -> "qget"
                [] OTHER -> pc[t]]
  /\ UNCHANGED <<mbox, speech_queue, ctlVars, val, workerVars, boxHist,
                 harnessVars>>

\* Faulty variant of Complete: the flag is flipped.
CompleteFlips ==
  /\ completed' = ~completed
  /\ UNCHANGED <<mbox, speech_queue, cancel_requested>>

\* complete(): _completed.set(), and nothing else.
Complete ==
  /\ completed' = TRUE
  /\ UNCHANGED <<mbox, speech_queue, cancel_requested>>

\* Faulty variant of WaitMayReturn: the wait does not look at the flag.
WaitReturnsAtOnce ==
  TRUE

\* wait_for_completion(): _completed.wait() returns only once the flag is
\* set (nothing clears it).
WaitMayReturn ==
  completed

\* Faulty variant of IsCancellationRequested: the flag is not looked at.
IsCancellationRequestedNever ==
  FALSE

\* is_cancellation_requested(): the state of _cancel_requested.
IsCancellationRequested ==
  cancel_requested

\* Faulty variant of IsCompleted: the answer is negated.
IsCompletedNegated ==
  ~completed

\* is_completed(): the state of _completed.
IsCompleted ==
  completed

\* Faulty variant of AExitCallsCleanup: no cleanup when the body raised.
AExitCleanupOnSuccess(exc) ==
  exc = "none"

\* __aexit__: cleanup() is awaited whatever exc_type is.
AExitCallsCleanup(exc) ==
  TRUE

\* What EventData.reset is specified to do; event.py defines no reset.
EvReset(e) ==
  [e EXCEPT !.data = None, !.event_set = FALSE]

\* cleanup(), lines 121-123: the primitives in the order their reset() is
\* called inside the one try block.
CleanupOrder ==
  <<"speech_queue", "input", "audio">>

\* A reset() call of cleanup() that raises: the mailboxes are EventData,
\* which defines no reset, so the call raises AttributeError.
ResetRaises(p) ==
  p \in {"input", "audio"} /\ "reset" \notin EventDataMethods

\* The position in CleanupOrder of the first reset() that raises, 0 if none
\* does: the statements of the try block after it are skipped.
FirstRaise ==
  LET S == {i \in DOMAIN CleanupOrder : ResetRaises(CleanupOrder[i])} IN
    IF S = {} THEN 0 ELSE CHOOSE i \in S : \A j \in S : i <= j

\* The primitives whose reset() cleanup() calls.
ResetsCalled ==
  {CleanupOrder[i] : i \in {j \in DOMAIN CleanupOrder :
                               FirstRaise = 0 \/ j <= FirstRaise}}

\* The primitives whose reset() cleanup() calls and that returns.
ResetsDone ==
  {p \in ResetsCalled : ~ResetRaises(p)}

\* Faulty variant of CleanupCatches: no except* clause.
CleanupCatchesNothing(err) ==
  FALSE

\* cleanup(), line 129: "except* Exception" catches every error that is not
\* a bare BaseException.
CleanupCatches(err) ==
  err \notin {"CancelledError", "KeyboardInterrupt", "SystemExit"}

\* cleanup() ends by raising: a reset() raised and the error was not caught.
CleanupPropagates ==
  FirstRaise # 0 /\ ~CleanupCatches("AttributeError")

\* The items reset() removes, in the order it removes them.
Drained(q) ==
  [i \in DOMAIN q.queue |->
     [item |-> q.queue[i], by |-> "reset", task |-> "none",
      waits |-> waitsDone]]

\* What put(x) adds to the record of the items put on queue q.
PutRecord(q, x) ==
  IF q.closed
    THEN <<>>
    ELSE <<[item |-> x, marked |-> q.batch_complete]>>

\* cleanup(): the resets are called in order up to the first that raises;
\* _completed is set only if none raised (lines 126-127 are in the same try
\* block); an error that is caught is logged.
Cleanup ==
  /\ speech_queue' = IF "speech_queue" \in ResetsDone
                       THEN QReset(speech_queue) ELSE speech_queue
  /\ mbox' = [m \in DOMAIN mbox |->
                IF m \in ResetsDone THEN EvReset(mbox[m]) ELSE mbox[m]]
  /\ completed' = IF FirstRaise = 0 THEN TRUE ELSE completed
  /\ logged' = IF FirstRaise # 0 /\ CleanupCatches("AttributeError")
                 THEN logged \cup {<<"pipeline", "AttributeError">>}
                 ELSE logged
  /\ resetsTried' = resetsTried \cup ResetsCalled
  /\ cleanups' = cleanups + 1
  /\ taken' = IF "speech_queue" \in ResetsDone
                THEN taken \o Drained(speech_queue) ELSE taken

\* Faulty variant of OnCancelled: the worker's handler logs the
\* cancellation and returns.
OnCancelledSwallows(t) ==
  "done"

\* tasks.py, lines 46-50, 83-87, 126-128 and 186-190: a worker that is
\* cancelled logs it and re-raises, so its task ends with the cancellation.
OnCancelled(t) ==
  "cancelled"

\* Faulty variant of WorkerCatches: the except* Exception clause is
\* missing.
WorkerCatchesNothing(err) ==
  FALSE

\* tasks.py, lines 51-52, 88-89, 115-121, 129-130 and 191-192: an error
\* that is not a cancellation is caught inside the worker.
WorkerCatches(err) ==
  err # "CancelledError"

\* Where worker t goes on after its collaborator raised err: to position
\* caught if the worker catches the error, else its task fails.
AfterError(p, t, err, caught) ==
  [p EXCEPT ![t] = IF WorkerCatches(err) THEN caught ELSE "failed"]

\* asyncio.TaskGroup.__aexit__ when the body raised: every task of the
\* group that has not ended is cancelled (it ends with CancelledError at
\* the await it is suspended in, or before its first step).
TaskGroupAbort(p) ==
  [t \in DOMAIN p |->
     IF t \in GroupTasks /\ p[t] \notin {"unborn", "done", "failed"}
       THEN OnCancelled(t) ELSE p[t]]

\* The body's wait_for_completion() returns, or an exception (a
\* cancellation of the cycle's task) is thrown into the body; either way
\* __aexit__ runs, and an error cleanup() lets through leaves the scope.
\* An exception then reaches the TaskGroup, which cancels the workers.
MainExit(exc) ==
  /\ pc["main"] = "waiting"
  /\ exc = "none" => WaitMayReturn
  /\ pc' = [(IF exc = "none" THEN pc ELSE TaskGroupAbort(pc))
               EXCEPT !["main"] =
                 IF AExitCallsCleanup(exc) /\ CleanupPropagates
                   THEN "raised" ELSE "exited"]
  /\ exitPath' = IF exc = "none" THEN "normal" ELSE "exception"
  /\ IF AExitCallsCleanup(exc)
       THEN Cleanup
       ELSE UNCHANGED <<speech_queue, cleanups, mbox, completed, logged,
                        resetsTried, taken>>
  /\ UNCHANGED <<cancel_requested, initial_audio_data, initial_text_input,
                 val, response_received, chatYielded, said, ctorArgs,
                 boxHist, setCalls, getCalls, completeCalls, qCalls, putSeq,
                 waitsDone>>

\* A worker task has ended, by returning or by cancellation, or was never
\* created.
Ended(t) ==
  pc[t] \in {"unborn", "done", "cancelled", "failed"}

\* asyncio.TaskGroup.__aexit__, main.py line 95: once the body has ended,
\* the group waits until every task it created has ended; then
\* run_pipeline_cycle returns, or raises what the body raised.
CycleReturn ==
  /\ pc["main"] = "exited"
  /\ \A w \in GroupTasks \cap DOMAIN pc : Ended(w)
  /\ pc' = [pc EXCEPT !["main"] =
               IF exitPath = "normal" THEN "returned" ELSE "aborted"]
  /\ UNCHANGED <<mbox, speech_queue, ctlVars, val, workerVars, boxHist,
                 harnessVars>>

\* Faulty variant of RequestCancellation: the completion flag is set too.
RequestCancellationCompletes ==
  /\ pc["main"] = "waiting"
  /\ ~cancel_requested
  /\ cancel_requested' = TRUE
  /\ completed' = TRUE
  /\ pc' = [t \in DOMAIN pc |->
              CASE t \in {"cancel_audio", "cancel_input"} -> "set"
                [] t = "cancel_speech" -> "put"
                [] OTHER -> pc[t]]
  /\ UNCHANGED <<mbox, speech_queue, initial_audio_data,
                 initial_text_input, cleanups, exitPath, ctorArgs,
                 resetsTried, val, workerVars, boxHist, harnessVars>>

\* request_cancellation(), called by a task outside the controller's own
\* while the body is suspended: the flag is set and three tasks are created.
RequestCancellation ==
  /\ pc["main"] = "waiting"
  /\ ~cancel_requested
  /\ cancel_requested' = TRUE
  /\ pc' = [t \in DOMAIN pc |->
              CASE t \in {"cancel_audio", "cancel_input"} -> "set"
                [] t = "cancel_speech" -> "put"
                [] OTHER -> pc[t]]
  /\ UNCHANGED <<mbox, speech_queue, completed, initial_audio_data,
                 initial_text_input, cleanups, exitPath, ctorArgs,
                 resetsTried, val, workerVars, boxHist, harnessVars>>

\* The task created for _speech_queue.put(None) runs.
CancelPut ==
  /\ pc["cancel_speech"] = "put"
  /\ speech_queue' = QPut(speech_queue, None)
  /\ putSeq' = putSeq \o PutRecord(speech_queue, None)
  /\ pc' = [pc EXCEPT !["cancel_speech"] = "done"]
  /\ UNCHANGED <<mbox, ctlVars, val, workerVars, boxHist, setCalls, getCalls,
                 completeCalls, qCalls, taken, waitsDone>>

\* A task other than the workers calls the accessor of the seeded mailbox
\* (get_audio_data / get_input_text) after the worker that reads that
\* mailbox has taken the seed.
ClientGet ==
  /\ pc["main"] = "waiting"
  /\ pc["client"] = "unborn"
  /\ LET reader == IF SeededBox = "audio" THEN "transcribe" ELSE "chat" IN
       pc[reader] \notin {"unborn", "get", "get_wait", "get_woken"}
  /\ pc' = [pc EXCEPT !["client"] = "get"]
  /\ UNCHANGED <<mbox, speech_queue, ctlVars, val, workerVars, boxHist,
                 harnessVars>>

---------------------------------------------------------------------------
(* tasks.py: the workers *)

\* transcribe_worker, lines 65-77, with the audio its get returned: the
\* transcriber returns r.  No valid word: complete() and return.
\* Otherwise the transcript is handed to set_input_text.
Transcribe(r) ==
  /\ pc["transcribe"] = "transcribing"
  /\ IF r = None \/ ~HasAlnum(r)
       THEN /\ Complete
            /\ pc' = [pc EXCEPT !["transcribe"] = "done"]
            /\ val' = val
       ELSE /\ completed' = completed
            /\ IF r # <<>>
                 THEN /\ pc' = [pc EXCEPT !["transcribe"] = "set"]
                      /\ val' = [val EXCEPT !["transcribe"] = r]
                 ELSE /\ pc' = [pc EXCEPT !["transcribe"] = "poll"]
                      /\ val' = val
  /\ UNCHANGED <<mbox, speech_queue, cancel_requested, initial_audio_data,
                 initial_text_input, cleanups, exitPath, ctorArgs,
                 resetsTried, workerVars, boxHist, harnessVars>>

\* transcribe_worker, lines 88-89: the transcriber raises; the error is
\* logged and the worker ends.
TranscribeRaise ==
  /\ pc["transcribe"] = "transcribing"
  /\ pc' = AfterError(pc, "transcribe", "Exception", "done")
  /\ logged' = logged \cup {<<"transcribe_worker", "Exception">>}
  /\ UNCHANGED <<mbox, speech_queue, ctlVars, val, response_received,
                 chatYielded, said, boxHist, harnessVars>>

\* Faulty variant of Poll: the worker returns without looking at the
\* flags.
PollEndsAtOnce(t) ==
  /\ pc[t] = "poll"
  /\ pc' = [pc EXCEPT ![t] = "done"]
  /\ UNCHANGED <<mbox, speech_queue, ctlVars, val, workerVars, boxHist,
                 harnessVars>>

\* transcribe_worker lines 80-81 and chat_worker lines 124-125: the worker
\* sleeps until the controller is completed or cancelled, then ends.
Poll(t) ==
  /\ pc[t] = "poll"
  /\ IsCompleted \/ IsCancellationRequested
  /\ pc' = [pc EXCEPT ![t] = "done"]
  /\ UNCHANGED <<mbox, speech_queue, ctlVars, val, workerVars, boxHist,
                 harnessVars>>

\* chat_worker, lines 104-106: the collaborator yields a fragment, which
\* is put on the speech queue.
ChatYield(f) ==
  /\ pc["chat"] = "chatting"
  /\ Len(chatYielded) < MaxFragments
  /\ chatYielded' = Append(chatYielded, f)
  /\ speech_queue' = QPut(speech_queue, f)
  /\ putSeq' = putSeq \o PutRecord(speech_queue, f)
  /\ response_received' = TRUE
  /\ UNCHANGED <<mbox, ctlVars, pc, val, said, logged, boxHist, setCalls,
                 getCalls, completeCalls, qCalls, taken, waitsDone>>

\* Faulty variant of ChatMarks: the batch is marked whenever the sequence
\* ends.
ChatMarksAlways(q) ==
  QMarkBatchComplete(q)

\* chat_worker, lines 109-111 and 120-121: the batch is marked complete
\* only if a fragment was received.
ChatMarks(q) ==
  IF response_received THEN QMarkBatchComplete(q) ELSE q

\* chat_worker, lines 108-111: the collaborator's sequence ends.
ChatEnd ==
  /\ pc["chat"] = "chatting"
  /\ speech_queue' = ChatMarks(speech_queue)
  /\ pc' = [pc EXCEPT !["chat"] = "poll"]
  /\ UNCHANGED <<mbox, ctlVars, val, workerVars, boxHist, harnessVars>>

\* chat_worker, lines 115-121: the collaborator's sequence raises.
ChatRaise ==
  /\ pc["chat"] = "chatting"
  /\ speech_queue' = ChatMarks(speech_queue)
  /\ logged' = logged \cup {<<"chat_worker", "Chat Error">>}
  /\ pc' = AfterError(pc, "chat", "Exception", "poll")
  /\ UNCHANGED <<mbox, ctlVars, val, response_received, chatYielded, said,
                 boxHist, harnessVars>>

\* speech_worker, lines 145-147 and 191-192: the worker looks up
\* ctlr.wait_for_speech_batch_completion, which PipelineController does not
\* define (pipeline.py, lines 195-197, is a comment): AttributeError is
\* raised outside the inner try, the except* clause logs it and the worker
\* ends.  Lines 149-184 are never reached.
SpeechAfterFirst(p, l) ==
  IF "wait_for_speech_batch_completion" \in ControllerMethods
    THEN <<[p EXCEPT !["speech"] = "drain"], l>>
    ELSE <<[p EXCEPT !["speech"] = "done"],
           l \cup {<<"speech_worker", "AttributeError">>}>>

\* Faulty variant of SpeechSays: the sentinel is spoken like a fragment.
SpeechSaysAll(speech) ==
  TRUE

\* speech_worker, line 141: an item is handed to voice.say unless it is
\* None.
SpeechSays(speech) ==
  speech # None

\* speech_worker, lines 137-142: the first item is taken from the queue
\* (the get returns only when the queue holds an item) and acknowledged;
\* an item that is not None is handed to voice.say.
SpeechGet ==
  /\ pc["speech"] = "qget"
  /\ speech_queue.queue # <<>>
  /\ LET speech == Head(speech_queue.queue) IN
       /\ speech_queue' = QTake(speech_queue)
       /\ val' = [val EXCEPT !["speech"] = speech]
       /\ taken' = Append(taken, [item |-> speech, by |-> "get",
                                  task |-> "speech", waits |-> waitsDone])
       /\ IF SpeechSays(speech)
            THEN /\ said' = Append(said, speech)
                 /\ pc' = [pc EXCEPT !["speech"] = "saying"]
                 /\ logged' = logged
            ELSE /\ said' = said
                 /\ pc' = SpeechAfterFirst(pc, logged)[1]
                 /\ logged' = SpeechAfterFirst(pc, logged)[2]
  /\ UNCHANGED <<mbox, ctlVars, response_received, chatYielded, boxHist,
                 setCalls, getCalls, completeCalls, qCalls, putSeq, waitsDone>>

\* speech_worker, line 142: voice.say returns.
SayReturn ==
  /\ pc["speech"] = "saying"
  /\ pc' = SpeechAfterFirst(pc, logged)[1]
  /\ logged' = SpeechAfterFirst(pc, logged)[2]
  /\ UNCHANGED <<mbox, speech_queue, ctlVars, val, response_received,
                 chatYielded, said, boxHist, harnessVars>>

\* speech_worker, lines 142 and 191-192: voice.say raises.
SayRaise ==
  /\ pc["speech"] = "saying"
  /\ pc' = AfterError(pc, "speech", "Exception", "done")
  /\ logged' = logged \cup {<<"speech_worker", "Exception">>}
  /\ UNCHANGED <<mbox, speech_queue, ctlVars, val, response_received,
                 chatYielded, said, boxHist, harnessVars>>

---------------------------------------------------------------------------
(* The pipeline: one controller, its workers and its callers *)

\* A position inside a step of the event loop: transcribe_worker calls
\* transcriber.transcribe_buffer synchronously (tasks.py, line 65, no
\* await), so from the return of its get to its set_input_text (or its
\* return) the loop runs no other task.
MidStep(t) ==
  t = "transcribe" /\ pc[t] \in {"transcribing", "set"}

\* complete() has resolved the future of the body's wait_for_completion()
\* (pipeline.py, lines 90-98 and 152-157): the body is in the loop's ready
\* queue.
MainWoken ==
  pc["main"] = "waiting" /\ WaitMayReturn

\* The event loop may run t next: no other task is inside a step; the
\* tasks request_cancellation() creates run after the first step of the
\* workers, which were created before them; and a worker woken from a get
\* after the body was woken runs after the body (the loop's ready queue is
\* first-in first-out, and complete() is called in the first step of
\* transcribe_worker, before any value reaches chat_worker or
\* speech_worker).
Runnable(t) ==
  /\ \A u \in DOMAIN pc \ {t} : ~MidStep(u)
  /\ t \in CancelTasks =>
       \A w \in {"transcribe", "chat"} \cap DOMAIN pc : pc[w] # "get"
  /\ (t \in {"chat", "speech"} /\ MainWoken) => pc[t] = "get"

Next ==
  \/ /\ Runnable("main")
     /\ \E a \in {None, AudioData}, t \in {None} \cup TextInputs :
          Construct(a, t)
  \/ Runnable("main") /\ AEnter
  \/ Runnable("main") /\ Spawn
  \/ Runnable("main") /\ \E exc \in {"none", "exception"} : MainExit(exc)
  \/ Runnable("main") /\ CycleReturn
  \/ Runnable("client") /\ RequestCancellation
  \/ Runnable("cancel_speech") /\ CancelPut
  \/ Runnable("client") /\ ClientGet
  \/ \E t \in DOMAIN pc : Runnable(t) /\ SetCall(t)
  \/ \E t \in DOMAIN pc : Runnable(t) /\ GetCall(t)
  \/ \E t \in DOMAIN pc : Runnable(t) /\ GetResume(t)
  \/ \E r \in Transcripts : Transcribe(r)
  \/ TranscribeRaise
  \/ \E t \in {"transcribe", "chat"} : Runnable(t) /\ Poll(t)
  \/ Runnable("chat") /\ \E f \in Fragments : ChatYield(f)
  \/ Runnable("chat") /\ ChatEnd
  \/ Runnable("chat") /\ ChatRaise
  \/ Runnable("speech") /\ SpeechGet
  \/ Runnable("speech") /\ SayReturn
  \/ Runnable("speech") /\ SayRaise

Spec ==
  Init /\ [][Next]_vars

---------------------------------------------------------------------------
(* One EventData and the tasks that call its methods *)

BoxInit ==
  /\ mbox = [m \in {"box"} |-> NewEventData]
  /\ speech_queue = NewQueue
  /\ cancel_requested = FALSE
  /\ completed = FALSE
  /\ initial_audio_data = None
  /\ initial_text_input = None
  /\ pc = [t \in HarnessTasks |-> "idle"]
  /\ val = [t \in HarnessTasks |-> None]
  /\ response_received = FALSE
  /\ chatYielded = <<>>
  /\ said = <<>>
  /\ logged = {}
  /\ cleanups = 0
  /\ exitPath = "none"
  /\ ctorArgs = <<None, None>>
  /\ nWrites = [m \in {"box"} |-> 0]
  /\ lastSet = [m \in {"box"} |-> None]
  /\ wokeAt = [t \in HarnessTasks |-> 0]
  /\ lastRet = [t \in HarnessTasks |-> 0]
  /\ retLog = <<>>
  /\ setCalls = 0
  /\ getCalls = 0
  /\ resetsTried = {}
  /\ completeCalls = 0
  /\ qCalls = 0
  /\ putSeq = <<>>
  /\ taken = <<>>
  /\ waitsDone = 0

\* A task is created that awaits set(v).
BoxSet(t, v) ==
  /\ pc[t] = "idle"
  /\ setCalls < MaxSets
  /\ setCalls' = setCalls + 1
  /\ pc' = [pc EXCEPT ![t] = "set"]
  /\ val' = [val EXCEPT ![t] = v]
  /\ UNCHANGED <<mbox, speech_queue, ctlVars, workerVars, boxHist, getCalls,
                 completeCalls, qCalls, queueHist>>

\* A task is created that awaits get().
BoxGet(t) ==
  /\ pc[t] = "idle"
  /\ getCalls < MaxGets
  /\ getCalls' = getCalls + 1
  /\ pc' = [pc EXCEPT ![t] = "get"]
  /\ UNCHANGED <<mbox, speech_queue, ctlVars, val, workerVars, boxHist,
                 setCalls, completeCalls, qCalls, queueHist>>

\* get_nowait(): None if no value is ready, else as get.
BoxGetNowait(t) ==
  /\ pc[t] = "idle"
  /\ getCalls < MaxGets
  /\ getCalls' = getCalls + 1
  /\ IF GetMayProceed(mbox["box"])
       THEN DoReturn(t, "nowait")
       ELSE /\ val' = [val EXCEPT ![t] = None]
            /\ UNCHANGED <<mbox, pc, lastRet, retLog>>
  /\ UNCHANGED <<speech_queue, ctlVars, workerVars, nWrites, lastSet, wokeAt,
                 setCalls, completeCalls, qCalls, queueHist>>

\* task_done(): the value is acknowledged and the tasks suspended in set
\* are woken.
BoxTaskDone ==
  /\ mbox' = [mbox EXCEPT !["box"] = EvTaskDone(@)]
  /\ pc' = WakeSetters(pc, "box")
  /\ UNCHANGED <<speech_queue, ctlVars, val, workerVars, boxHist, harnessVars>>

BoxNext ==
  \/ \E t \in Setters, v \in BoxValues : BoxSet(t, v)
  \/ \E t \in Getters : BoxGet(t)
  \/ \E t \in Getters : BoxGetNowait(t)
  \/ BoxTaskDone
  \/ \E t \in DOMAIN pc : SetCall(t)
  \/ \E t \in DOMAIN pc : SetResume(t)
  \/ \E t \in DOMAIN pc : GetCall(t)
  \/ \E t \in DOMAIN pc : GetResume(t)

BoxSpec ==
  BoxInit /\ [][BoxNext]_vars

---------------------------------------------------------------------------
(* One controller whose methods are called from outside its workers, as    *)
(* tests/test_pipeline.py does: a scope enters it and awaits               *)
(* wait_for_completion(), other tasks await wait_for_completion() too, and *)
(* complete(), request_cancellation(), add_to_speech_queue() and           *)
(* mark_speech_batch_complete() are called at any time.                    *)

CtlInit ==
  /\ mbox = [m \in {"audio", "input"} |-> NewEventData]
  /\ speech_queue = NewQueue
  /\ cancel_requested = FALSE
  /\ completed = FALSE
  /\ initial_audio_data = None
  /\ initial_text_input = None
  /\ pc = [t \in CtlTasks |->
             CASE t = "main" -> "start"
               [] t \in Waiters -> "idle"
               [] OTHER -> "unborn"]
  /\ val = [t \in CtlTasks |-> None]
  /\ response_received = FALSE
  /\ chatYielded = <<>>
  /\ said = <<>>
  /\ logged = {}
  /\ cleanups = 0
  /\ exitPath = "none"
  /\ ctorArgs = <<None, None>>
  /\ nWrites = [m \in {"audio", "input"} |-> 0]
  /\ lastSet = [m \in {"audio", "input"} |-> None]
  /\ wokeAt = [t \in CtlTasks |-> 0]
  /\ lastRet = [t \in CtlTasks |-> 0]
  /\ retLog = <<>>
  /\ setCalls = 0
  /\ getCalls = 0
  /\ resetsTried = {}
  /\ completeCalls = 0
  /\ qCalls = 0
  /\ putSeq = <<>>
  /\ taken = <<>>
  /\ waitsDone = 0

\* The controller has been constructed.
CtlExists ==
  pc["main"] \notin {"start", "failed"}

\* A task calls complete().
CtlComplete ==
  /\ CtlExists
  /\ completeCalls < MaxCompletes
  /\ completeCalls' = completeCalls + 1
  /\ Complete
  /\ UNCHANGED <<initial_audio_data, initial_text_input, cleanups, exitPath,
                 ctorArgs, resetsTried, pc, val, workerVars, boxHist,
                 setCalls, getCalls, qCalls, queueHist>>

\* A task is created that awaits wait_for_completion().
CtlWait(w) ==
  /\ CtlExists
  /\ pc[w] = "idle"
  /\ pc' = [pc EXCEPT ![w] = "waiting"]
  /\ UNCHANGED <<mbox, speech_queue, ctlVars, val, workerVars, boxHist,
                 harnessVars>>

\* wait_for_completion() returns to the task that awaits it.
CtlWaitReturn(w) ==
  /\ pc[w] = "waiting"
  /\ WaitMayReturn
  /\ pc' = [pc EXCEPT ![w] = "released"]
  /\ UNCHANGED <<mbox, speech_queue, ctlVars, val, workerVars, boxHist,
                 harnessVars>>

\* A task calls add_to_speech_queue(f).
CtlAdd(f) ==
  /\ CtlExists
  /\ Len(speech_queue.queue) < MaxFragments
  /\ speech_queue' = QPut(speech_queue, f)
  /\ UNCHANGED <<mbox, ctlVars, pc, val, workerVars, boxHist, harnessVars>>

\* A task calls mark_speech_batch_complete().
CtlMark ==
  /\ CtlExists
  /\ speech_queue' = QMarkBatchComplete(speech_queue)
  /\ UNCHANGED <<mbox, ctlVars, pc, val, workerVars, boxHist, harnessVars>>

CtlNext ==
  \/ \E a \in {None, AudioData}, t \in {None} \cup TextInputs : Construct(a, t)
  \/ AEnter
  \/ Spawn
  \/ \E exc \in {"none", "exception"} : MainExit(exc)
  \/ RequestCancellation
  \/ CancelPut
  \/ \E t \in DOMAIN pc : SetCall(t)
  \/ CtlComplete
  \/ \E w \in Waiters : CtlWait(w)
  \/ \E w \in Waiters : CtlWaitReturn(w)
  \/ \E f \in Fragments : CtlAdd(f)
  \/ CtlMark

CtlSpec ==
  CtlInit /\ [][CtlNext]_vars

---------------------------------------------------------------------------
(* One QueuedEventData and the tasks that call its methods *)

QueueInit ==
  /\ mbox = [m \in {} |-> NewEventData]
  /\ speech_queue = NewQueue
  /\ cancel_requested = FALSE
  /\ completed = FALSE
  /\ initial_audio_data = None
  /\ initial_text_input = None
  /\ pc = [t \in QueueTasks |-> "idle"]
  /\ val = [t \in QueueTasks |-> None]
  /\ response_received = FALSE
  /\ chatYielded = <<>>
  /\ said = <<>>
  /\ logged = {}
  /\ cleanups = 0
  /\ exitPath = "none"
  /\ ctorArgs = <<None, None>>
  /\ nWrites = [m \in {} |-> 0]
  /\ lastSet = [m \in {} |-> None]
  /\ wokeAt = [t \in QueueTasks |-> 0]
  /\ lastRet = [t \in QueueTasks |-> 0]
  /\ retLog = <<>>
  /\ setCalls = 0
  /\ getCalls = 0
  /\ resetsTried = {}
  /\ completeCalls = 0
  /\ qCalls = 0
  /\ putSeq = <<>>
  /\ taken = <<>>
  /\ waitsDone = 0

\* What no method of QueuedEventData touches.
queueFrame ==
  <<mbox, ctlVars, workerVars, boxHist, setCalls, completeCalls>>

\* A method is called: the calls are counted up to MaxCalls.
QsCalled ==
  /\ qCalls < MaxCalls
  /\ qCalls' = qCalls + 1

\* The head of the queue is removed and handed to t.
QsTakes(t, how) ==
  /\ speech_queue' = QTake(speech_queue)
  /\ val' = [val EXCEPT ![t] = Head(speech_queue.queue)]
  /\ taken' = Append(taken, [item |-> Head(speech_queue.queue), by |-> how,
                             task |-> t, waits |-> waitsDone])

\* put(x).
QsPut(x) ==
  /\ QsCalled
  /\ speech_queue' = QPut(speech_queue, x)
  /\ putSeq' = IF speech_queue.closed
                 THEN putSeq
                 ELSE Append(putSeq, [item |-> x,
                                      marked |-> speech_queue.batch_complete])
  /\ UNCHANGED <<queueFrame, pc, val, getCalls, taken, waitsDone>>

\* get(), called by t: None on a closed empty queue, the head of a queue
\* that holds an item, else t suspends in asyncio.Queue.get.
QsGet(t) ==
  /\ pc[t] = "idle"
  /\ QsCalled
  /\ getCalls' = getCalls + 1
  /\ IF QGetReturnsNone(speech_queue)
       THEN /\ val' = [val EXCEPT ![t] = None]
            /\ UNCHANGED <<speech_queue, pc, taken>>
       ELSE IF speech_queue.queue # <<>>
         THEN /\ QsTakes(t, "get")
              /\ pc' = pc
         ELSE /\ pc' = [pc EXCEPT ![t] = "qget_wait"]
              /\ UNCHANGED <<speech_queue, val, taken>>
  /\ UNCHANGED <<queueFrame, putSeq, waitsDone>>

\* A task suspended in asyncio.Queue.get goes on once the queue holds an
\* item.
QsGetResume(t) ==
  /\ pc[t] = "qget_wait"
  /\ speech_queue.queue # <<>>
  /\ QsTakes(t, "get")
  /\ pc' = [pc EXCEPT ![t] = "idle"]
  /\ UNCHANGED <<queueFrame, getCalls, qCalls, putSeq, waitsDone>>

\* get_nowait(), called by t: the head, or None if the queue is empty.
QsGetNowait(t) ==
  /\ pc[t] = "idle"
  /\ QsCalled
  /\ IF speech_queue.queue # <<>>
       THEN QsTakes(t, "get_nowait")
       ELSE /\ val' = [val EXCEPT ![t] = None]
            /\ UNCHANGED <<speech_queue, taken>>
  /\ UNCHANGED <<queueFrame, pc, getCalls, putSeq, waitsDone>>

\* mark_batch_complete(): the flag is set and the tasks suspended in
\* _batch_complete.wait() are woken.
QsMark ==
  /\ QsCalled
  /\ speech_queue' = QMarkBatchComplete(speech_queue)
  /\ pc' = [t \in DOMAIN pc |->
              IF pc[t] = "bwait_wait" THEN "bwait_woken" ELSE pc[t]]
  /\ UNCHANGED <<queueFrame, val, getCalls, queueHist>>

\* wait_for_batch_completion(), called by t: the flag is cleared and the
\* call returns, or t suspends in _batch_complete.wait().
QsWait(t) ==
  /\ pc[t] = "idle"
  /\ QsCalled
  /\ IF QWaitMayProceed(speech_queue)
       THEN /\ speech_queue' = QClearBatch(speech_queue)
            /\ waitsDone' = waitsDone + 1
            /\ pc' = pc
       ELSE /\ pc' = [pc EXCEPT ![t] = "bwait_wait"]
            /\ UNCHANGED <<speech_queue, waitsDone>>
  /\ UNCHANGED <<queueFrame, val, getCalls, putSeq, taken>>

\* A task woken in _batch_complete.wait() goes on: wait() returns once its
\* future is resolved, whatever the flag is by then, and the flag is
\* cleared.
QsWaitResume(t) ==
  /\ pc[t] = "bwait_woken"
  /\ speech_queue' = QClearBatch(speech_queue)
  /\ waitsDone' = waitsDone + 1
  /\ pc' = [pc EXCEPT ![t] = "idle"]
  /\ UNCHANGED <<queueFrame, val, getCalls, qCalls, putSeq, taken>>

\* close().
QsClose ==
  /\ QsCalled
  /\ speech_queue' = QClose(speech_queue)
  /\ UNCHANGED <<queueFrame, pc, val, getCalls, queueHist>>

\* reset().
QsReset ==
  /\ QsCalled
  /\ speech_queue' = QReset(speech_queue)
  /\ taken' = taken \o Drained(speech_queue)
  /\ UNCHANGED <<queueFrame, pc, val, getCalls, putSeq, waitsDone>>

QueueNext ==
  \/ \E x \in Fragments : QsPut(x)
  \/ \E t \in Consumers : QsGet(t)
  \/ \E t \in Consumers : QsGetResume(t)
  \/ \E t \in Consumers : QsGetNowait(t)
  \/ QsMark
  \/ \E t \in BatchWaiters : QsWait(t)
  \/ \E t \in BatchWaiters : QsWaitResume(t)
  \/ QsClose
  \/ QsReset

QueueSpec ==
  QueueInit /\ [][QueueNext]_vars

---------------------------------------------------------------------------
(* run_pipeline_cycle: the input worker, then the controller and its       *)
(* workers                                                                 *)

\* INPUT.VOICE.value and INPUT.TEXT.value.
InputKinds ==
  {"voice", "text"}

CycleTasks ==
  PipelineTasks \cup {"input"}

CycleBoxes ==
  {"audio", "input", "source"}

\* run_pipeline_cycle has been called; "source" is the EventData it hands
\* to the input handler (audio_event or input_event, lines 80-81).
CycleInit ==
  /\ mbox = [m \in CycleBoxes |-> NewEventData]
  /\ speech_queue = NewQueue
  /\ cancel_requested = FALSE
  /\ completed = FALSE
  /\ initial_audio_data = None
  /\ initial_text_input = None
  /\ pc = [t \in CycleTasks |-> IF t = "main" THEN "cycle" ELSE "unborn"]
  /\ val = [t \in CycleTasks |-> None]
  /\ response_received = FALSE
  /\ chatYielded = <<>>
  /\ said = <<>>
  /\ logged = {}
  /\ cleanups = 0
  /\ exitPath = "none"
  /\ ctorArgs = <<None, None>>
  /\ nWrites = [m \in CycleBoxes |-> 0]
  /\ lastSet = [m \in CycleBoxes |-> None]
  /\ wokeAt = [t \in CycleTasks |-> 0]
  /\ lastRet = [t \in CycleTasks |-> 0]
  /\ retLog = <<>>
  /\ setCalls = 0
  /\ getCalls = 0
  /\ resetsTried = {}
  /\ completeCalls = 0
  /\ qCalls = 0
  /\ putSeq = <<>>
  /\ taken = <<>>
  /\ waitsDone = 0

\* Faulty variant of ReceiveAccepts: both handlers take wait_event.
ReceiveAcceptsBoth(kind) ==
  TRUE

\* input_worker calls input_handler.receive(wait_event=...) (tasks.py,
\* lines 35-44): AudioInput.receive has that parameter (audio.py, line
\* 32), TextInput.receive has not (text.py, line 15) and the call raises
\* TypeError.
ReceiveAccepts(kind) ==
  kind = "voice"

\* The kind of input the input worker was created for.
InputKind ==
  IF pc["input"] = "receive_voice" THEN "voice" ELSE "text"

\* main.py, lines 95-105 and 128-136: the TaskGroup is entered, the input
\* worker is created and the body calls get on the source mailbox.
CycleStart(kind) ==
  /\ pc["main"] = "cycle"
  /\ pc' = [pc EXCEPT !["main"] = "get",
                      !["input"] = IF kind = "voice" THEN "receive_voice"
                                                     ELSE "receive_text"]
  /\ UNCHANGED <<mbox, speech_queue, ctlVars, val, workerVars, boxHist,
                 harnessVars>>

\* input_worker, lines 27-52: receive() is called.  It captures v and goes
\* on to set it on the source mailbox (audio.py line 102, text.py line
\* 24); or it returns without writing (no speech captured, audio.py line
\* 89; a blank line, text.py lines 19-20); or it raises, which the worker
\* logs.
InputReceive(out, v) ==
  /\ pc["input"] \in {"receive_voice", "receive_text"}
  /\ pc["main"] # "get"
  /\ IF InputKind = "voice" THEN v = AudioData ELSE v \in TextInputs
  /\ IF ~ReceiveAccepts(InputKind)
       THEN /\ out = "raise"
            /\ pc' = AfterError(pc, "input", "TypeError", "done")
            /\ logged' = logged \cup {<<"input_worker", "TypeError">>}
            /\ val' = val
       ELSE CASE out = "data" ->
                   /\ pc' = [pc EXCEPT !["input"] = "set"]
                   /\ val' = [val EXCEPT !["input"] = v]
                   /\ logged' = logged
              [] out = "nothing" ->
                   /\ pc' = [pc EXCEPT !["input"] = "done"]
                   /\ UNCHANGED <<val, logged>>
              [] OTHER ->
                   /\ pc' = AfterError(pc, "input", "Exception", "done")
                   /\ logged' = logged \cup {<<"input_worker", "Exception">>}
                   /\ val' = val
  /\ UNCHANGED <<mbox, speech_queue, ctlVars, response_received, chatYielded,
                 said, boxHist, harnessVars>>

\* main.py, lines 108 and 139: the controller is constructed with the
\* value the body's get returned, as audio_data or as text_input.
CycleConstruct ==
  Construct(IF val["main"] = AudioData THEN val["main"] ELSE None,
            IF val["main"] \in TextInputs THEN val["main"] ELSE None)

\* An exception (a cancellation of the cycle's task) is thrown into the
\* body while it is suspended in the source mailbox's get: the TaskGroup
\* cancels the input worker and run_pipeline_cycle raises.
CycleInterrupt ==
  /\ pc["main"] \in {"get_wait", "get_woken"}
  /\ pc' = [TaskGroupAbort(pc) EXCEPT !["main"] = "aborted"]
  /\ exitPath' = "exception"
  /\ UNCHANGED <<mbox, speech_queue, cancel_requested, completed,
                 initial_audio_data, initial_text_input, cleanups, ctorArgs,
                 resetsTried, val, workerVars, boxHist, harnessVars>>

\* The steps the program takes by itself, as opposed to an exception
\* thrown into the body from outside.
CycleSteps ==
  \/ \E kind \in InputKinds : CycleStart(kind)
  \/ /\ Runnable("input")
     /\ \E out \in {"data", "nothing", "raise"},
           v \in {AudioData} \cup TextInputs : InputReceive(out, v)
  \/ Runnable("main") /\ CycleConstruct
  \/ Runnable("main") /\ AEnter
  \/ Runnable("main") /\ Spawn
  \/ Runnable("main") /\ \E exc \in {"none", "exception"} : MainExit(exc)
  \/ Runnable("main") /\ CycleReturn
  \/ Runnable("client") /\ RequestCancellation
  \/ Runnable("cancel_speech") /\ CancelPut
  \/ Runnable("client") /\ ClientGet
  \/ \E t \in DOMAIN pc : Runnable(t) /\ SetCall(t)
  \/ \E t \in DOMAIN pc : Runnable(t) /\ GetCall(t)
  \/ \E t \in DOMAIN pc : Runnable(t) /\ GetResume(t)
  \/ \E r \in Transcripts : Transcribe(r)
  \/ TranscribeRaise
  \/ \E t \in {"transcribe", "chat"} : Runnable(t) /\ Poll(t)
  \/ Runnable("chat") /\ \E f \in Fragments : ChatYield(f)
  \/ Runnable("chat") /\ ChatEnd
  \/ Runnable("chat") /\ ChatRaise
  \/ Runnable("speech") /\ SpeechGet
  \/ Runnable("speech") /\ SayReturn
  \/ Runnable("speech") /\ SayRaise

CycleNext ==
  \/ CycleSteps
  \/ CycleInterrupt

CycleSpec ==
  CycleInit /\ [][CycleNext]_vars

---------------------------------------------------------------------------
(* Claims *)

\* The controller's scope ("async with PipelineController(...)") has been
\* left without an error of its own.
ScopeLeft ==
  pc["main"] \in {"exited", "returned", "aborted"}

\* The pushes request_cancellation() started have all been scheduled.
CancelTasksScheduled ==
  /\ cancel_requested
  /\ \A t \in CancelTasks : pc[t] \notin {"unborn", "set", "put"}

\* C1 (as claimed; violated): in a text-seeded turn without cancellation
\* in which the chat collaborator yields two fragments and ends normally
\* and the voice does not fail, the speech worker ends only after it has
\* handed both fragments to the voice, in order, and has called complete().
C1_BothFragmentsSpokenThenComplete ==
  ( /\ initial_text_input # None
    /\ ~cancel_requested
    /\ exitPath = "none"
    /\ Len(chatYielded) = 2
    /\ pc["chat"] \in {"poll", "done"}
    /\ <<"chat_worker", "Chat Error">> \notin logged
    /\ <<"speech_worker", "Exception">> \notin logged
    /\ pc["speech"] = "done" )
  => (said = chatYielded /\ completed)

\* C2 (as claimed; violated): once cleanup() has run, the completion flag
\* is set.
C2_CleanupSetsCompleted ==
  cleanups > 0 => completed

\* C3 (as claimed; violated): once the pushes request_cancellation()
\* started have been scheduled, the audio mailbox, the text mailbox and the
\* batch queue have each received the sentinel.
C3_SentinelReachesAllThree ==
  CancelTasksScheduled => \A t \in CancelTasks : pc[t] = "done"

\* C4 (as claimed; violated): once the pushes request_cancellation()
\* started have been scheduled, no task is still suspended in a get on the
\* mailbox that was seeded at enter.
C4_BlockedGetOnSeededBoxReleased ==
  CancelTasksScheduled => pc["client"] # "get_wait"

\* C5 (as claimed; violated): a set never suspends its caller.
C5_SetNeverSuspends ==
  \A t \in DOMAIN pc : pc[t] # "set_wait"

\* C5 (amended): a set called while the previous value is unacknowledged
\* suspends and leaves the mailbox as it is; a suspended set is released
\* only by task_done(), and then stores its value; a set called on an
\* acknowledged (or fresh) mailbox stores its value without suspending and
\* marks the mailbox ready; every get returns the value stored last.
C5_SetWaitsForAcknowledgement ==
  [][ /\ \A t \in Setters :
           /\ (pc[t] = "set" /\ pc'[t] # "set") =>
                IF mbox["box"].event_processed
                  THEN /\ pc'[t] = "idle"
                       /\ mbox'["box"].data = val[t]
                       /\ mbox'["box"].event_set
                  ELSE /\ pc'[t] = "set_wait"
                       /\ mbox' = mbox
           /\ (pc[t] = "set_wait" /\ pc'[t] # "set_wait") =>
                /\ pc'[t] = "set_woken"
                /\ ~mbox["box"].event_processed
                /\ mbox'["box"].event_processed
                /\ mbox'["box"].data = mbox["box"].data
           /\ (pc[t] = "set_woken" /\ pc'[t] # "set_woken") =>
                /\ pc'[t] = "idle"
                /\ mbox'["box"].data = val[t]
      /\ Len(retLog') > Len(retLog) =>
           retLog'[Len(retLog')].value = lastSet["box"]
    ]_vars

\* C5 witness: a set is suspended behind a value that is still unread.
C5_Witness ==
  \E t \in Setters :
    /\ pc[t] = "set_wait"
    /\ mbox["box"].event_set
    /\ ~mbox["box"].event_processed

\* C6 (as claimed; violated): no two gets that were suspended are released
\* by the same set.
C6_OneSetWakesOneGet ==
  \A i, j \in DOMAIN retLog :
    (i # j /\ retLog[i].how = "woken" /\ retLog[j].how = "woken")
      => retLog[i].woke # retLog[j].woke

\* C7: a get returns only after a set has made a value ready (the mailbox
\* is ready when a get returns at once, and a suspended get was woken by a
\* set); on return the mailbox is no longer ready; and a get issued by a
\* task with no set completed since its last get returned suspends.
C7_GetWaitsAndClearsReadiness ==
  [][ \A t \in Getters :
        /\ (Len(retLog') > Len(retLog) /\ retLog'[Len(retLog')].task = t) =>
             /\ nWrites["box"] >= 1
             /\ ~mbox'["box"].event_set
             /\ retLog'[Len(retLog')].how = "woken" => wokeAt[t] >= 1
             /\ retLog'[Len(retLog')].how # "woken" => mbox["box"].event_set
        /\ (pc[t] = "get" /\ pc'[t] # "get" /\ lastRet[t] = nWrites["box"]) =>
             pc'[t] = "get_wait"
    ]_vars

\* C7 witness: a task whose get has returned is suspended in its next get,
\* no set having completed in between.
C7_Witness ==
  \E t \in Getters :
    /\ pc[t] = "get_wait"
    /\ nWrites["box"] >= 1
    /\ lastRet[t] = nWrites["box"]
    /\ \E i \in DOMAIN retLog : retLog[i].task = t

\* C8: the construction fails exactly when neither or both inputs are
\* given; after a failure nothing of a controller exists (no input stored,
\* no task started, primitives untouched); after a success the inputs
\* stored are the ones given.
C8_ConstructionChecksInputs ==
  pc["main"] # "start" =>
    LET exactlyOne == (ctorArgs[1] = None) # (ctorArgs[2] = None) IN
      /\ (pc["main"] = "failed") <=> ~exactlyOne
      /\ pc["main"] = "failed" =>
           /\ initial_audio_data = None /\ initial_text_input = None
           /\ \A t \in DOMAIN pc \ {"main"} : pc[t] = "unborn"
           /\ \A m \in DOMAIN mbox : mbox[m] = NewEventData
           /\ speech_queue = NewQueue
      /\ pc["main"] # "failed" =>
           /\ initial_audio_data = ctorArgs[1]
           /\ initial_text_input = ctorArgs[2]

\* C8 witness: a construction with both inputs has failed.
C8_Witness ==
  /\ pc["main"] = "failed"
  /\ ctorArgs[1] # None
  /\ ctorArgs[2] # None

\* C9: right after __aenter__, the mailbox of the input that was given is
\* ready and holds that input, the other mailbox is not ready and holds
\* nothing, and the batch queue is empty and not complete.
C9_ExactlyOneMailboxSeeded ==
  pc["main"] = "entered" =>
    LET audioTurn == ctorArgs[1] # None
        s == IF audioTurn THEN "audio" ELSE "input"
        o == IF audioTurn THEN "input" ELSE "audio"
    IN /\ mbox[s].event_set
       /\ mbox[s].data = (IF audioTurn THEN ctorArgs[1] ELSE ctorArgs[2])
       /\ mbox[s].data # None
       /\ ~mbox[o].event_set
       /\ mbox[o].data = None
       /\ speech_queue.queue = <<>>
       /\ ~speech_queue.batch_complete

\* C9 witness: an audio turn has been entered.
C9_Witness ==
  /\ pc["main"] = "entered"
  /\ initial_audio_data = AudioData
  /\ mbox["audio"].event_set

\* C10: cleanup() has run exactly once when the controller's scope has
\* been left, by a normal exit or by an exception, and has not run before.
C10_CleanupExactlyOnceOnExit ==
  /\ ScopeLeft => (cleanups = 1 /\ exitPath # "none")
  /\ ~ScopeLeft => (cleanups = 0 /\ exitPath = "none")

\* C10 witness: the scope has been left by an exception and cleanup() ran.
C10_Witness ==
  /\ ScopeLeft
  /\ exitPath = "exception"
  /\ cleanups = 1

\* C11: a call of complete() leaves the completion flag set and leaves the
\* audio mailbox, the text mailbox, the batch queue with its batch-complete
\* flag and the cancellation flag as they were; a call made when the flag
\* is already set changes nothing at all.
C11_CompleteSetsFlagOnly ==
  [][ completeCalls' > completeCalls =>
        /\ completed'
        /\ mbox' = mbox
        /\ speech_queue' = speech_queue
        /\ cancel_requested' = cancel_requested
        /\ completed =>
             /\ completed' = completed
             /\ pc' = pc
             /\ val' = val
             /\ initial_audio_data' = initial_audio_data
             /\ initial_text_input' = initial_text_input
    ]_vars

\* C11 witness: complete() has been called twice on a controller whose
\* seeded mailbox is ready, whose queue holds an item and is marked
\* complete and whose cancellation flag is set.
C11_Witness ==
  /\ completeCalls = 2
  /\ completed
  /\ \E m \in DOMAIN mbox : mbox[m].event_set
  /\ speech_queue.queue # <<>>
  /\ speech_queue.batch_complete
  /\ cancel_requested

\* C12: cleanup() ends by returning, never by raising: whenever it has
\* run, the scope's exit has completed normally and the error raised by a
\* reset() has been logged; nothing is logged for cleanup() before it runs.
C12_CleanupLogsAndReturns ==
  /\ cleanups > 0 =>
       /\ ScopeLeft
       /\ <<"pipeline", "AttributeError">> \in logged
  /\ cleanups = 0 => <<"pipeline", "AttributeError">> \notin logged

\* C12 witness: cleanup() has called a reset() that raised, and returned.
C12_Witness ==
  /\ cleanups = 1
  /\ \E p \in resetsTried : ResetRaises(p)
  /\ <<"pipeline", "AttributeError">> \in logged
  /\ ScopeLeft

\* C13 (as claimed; violated): once cleanup() has run, the reset of each of
\* the three primitives has been attempted.
C13_OtherResetsStillAttempted ==
  cleanups > 0 => resetsTried = {"speech_queue", "input", "audio"}

\* C14: a task that awaits wait_for_completion() is not released while the
\* completion flag is unset (a released task implies the flag is set, and
\* no step releases a task when the flag is unset), and once the flag is
\* set its release is enabled, whether or not cleanup() has run.
C14_WaitReleasedByComplete ==
  \A w \in Waiters :
    /\ pc[w] = "released" => completed
    /\ (pc[w] = "waiting" /\ ~completed) => ~ENABLED CtlWaitReturn(w)
    /\ (pc[w] = "waiting" /\ completed) => ENABLED CtlWaitReturn(w)

\* C14 witness: a task has been released after complete() was called and
\* before any cleanup().
C14_Witness ==
  \E w \in Waiters :
    /\ pc[w] = "released"
    /\ completeCalls >= 1
    /\ cleanups = 0

\* The items of a history, in order.
ItemsOf(h) ==
  [i \in DOMAIN h |-> h[i].item]

\* The items get() has returned, in order.
GotSeq ==
  ItemsOf(SelectSeq(taken, LAMBDA r : r.by = "get"))

IsPrefix(a, b) ==
  /\ Len(a) <= Len(b)
  /\ \A i \in DOMAIN a : a[i] = b[i]

\* Every call made so far was a put() that enqueued or a get().
OnlyPutAndGet ==
  qCalls = Len(putSeq) + getCalls

\* C15: whatever the interleaving of put and get, the items get has
\* returned are, in order, the first of the items put, and the items still
\* queued are the rest of them, in order.
C15_GetsArePrefixOfPuts ==
  OnlyPutAndGet =>
    /\ IsPrefix(GotSeq, ItemsOf(putSeq))
    /\ GotSeq \o speech_queue.queue = ItemsOf(putSeq)

\* C15 witness: two different items were put and two gets, one of them
\* suspended until the put, have returned them to two tasks.
C15_Witness ==
  /\ OnlyPutAndGet
  /\ Len(putSeq) = 2
  /\ putSeq[1].item # putSeq[2].item
  /\ Len(taken) = 2
  /\ taken[1].task # taken[2].task
  /\ getCalls = 2

\* C16 (as claimed; violated): only reset() clears a batch-complete flag
\* that is set.
C16_OnlyResetClearsBatchFlag ==
  [][ (speech_queue.batch_complete /\ ~speech_queue'.batch_complete)
        => QsReset ]_vars

\* C16 (amended): a batch-complete flag that is set is cleared only by
\* reset() or by a wait_for_batch_completion() that returns; put, get,
\* get_nowait, close and mark_batch_complete leave it set.
C16_OnlyResetOrWaitClearsBatchFlag ==
  [][ (speech_queue.batch_complete /\ ~speech_queue'.batch_complete)
        => \/ QsReset
           \/ waitsDone' > waitsDone ]_vars

\* C16 witness: the flag is still set after a put, a take and a close that
\* followed the mark.
C16_Witness ==
  /\ speech_queue.batch_complete
  /\ speech_queue.closed
  /\ \E i \in DOMAIN putSeq : putSeq[i].marked
  /\ taken # <<>>
  /\ waitsDone = 0

\* C17: wait_for_batch_completion() returns only if the flag is set when
\* it is called or was set while the caller was suspended; when it returns
\* is_batch_complete() is false; a call made while the flag is unset
\* suspends, and a suspended call is released only by mark_batch_complete().
C17_WaitConsumesBatchFlag ==
  [][ /\ waitsDone' > waitsDone =>
           /\ \/ speech_queue.batch_complete
              \/ \E t \in BatchWaiters :
                   pc[t] = "bwait_woken" /\ pc'[t] = "idle"
           /\ ~QIsBatchComplete(speech_queue')
      /\ \A t \in BatchWaiters :
           /\ (QsWait(t) /\ ~QIsBatchComplete(speech_queue)) =>
                (pc'[t] = "bwait_wait" /\ waitsDone' = waitsDone)
           /\ (pc[t] = "bwait_wait" /\ pc'[t] # "bwait_wait") =>
                /\ pc'[t] = "bwait_woken"
                /\ ~QIsBatchComplete(speech_queue)
                /\ QIsBatchComplete(speech_queue')
    ]_vars

\* C17 witness: a wait has returned and a later wait is suspended, the
\* flag being unset.
C17_Witness ==
  /\ waitsDone >= 1
  /\ ~QIsBatchComplete(speech_queue)
  /\ \E t \in BatchWaiters : pc[t] = "bwait_wait"

\* C18: a wait_for_batch_completion() that returns leaves the items of the
\* queue as they are, and a get on a queue that holds items returns the
\* oldest of them: an item put after the mark is still delivered.
C18_ObservingCompletionKeepsItems ==
  [][ /\ waitsDone' > waitsDone =>
           (speech_queue'.queue = speech_queue.queue /\ taken' = taken)
      /\ \A t \in Consumers :
           (QsGet(t) /\ speech_queue.queue # <<>>) =>
             /\ val'[t] = Head(speech_queue.queue)
             /\ speech_queue'.queue = Tail(speech_queue.queue)
    ]_vars

\* C18 witness: an item was put while the batch was marked complete, then
\* a wait_for_batch_completion() returned, then a get returned the item.
C18_Witness ==
  /\ Len(putSeq) = 1
  /\ putSeq[1].marked
  /\ Len(taken) = 1
  /\ taken[1].by = "get"
  /\ taken[1].waits = 1
  /\ taken[1].item = putSeq[1].item
  /\ \E t \in Consumers : val[t] = putSeq[1].item

\* C19 (as claimed; violated): once cleanup() has called the resets, the
\* batch queue and both mailboxes are as freshly constructed: no items, no
\* value, not ready, batch-complete flag unset.
C19_ResetLeavesPrimitivesFresh ==
  cleanups > 0 =>
    /\ speech_queue = NewQueue
    /\ \A m \in DOMAIN mbox : mbox[m].data = None /\ ~mbox[m].event_set

\* The transcribe worker has ended by calling complete(): its transcript
\* was None or had no alphanumeric character (no other worker reaches a
\* call of complete(), and cleanup() does not set the flag).
TranscriptWasInvalid ==
  /\ pc["transcribe"] = "done"
  /\ completed
  /\ <<"transcribe_worker", "Exception">> \notin logged

\* The chat worker has called the chat collaborator.
ChatInvoked ==
  pc["chat"] \in {"chatting", "poll", "done"}

\* C20 (as claimed; violated): in an audio-seeded turn, once the transcribe
\* worker has ended on an invalid transcript nothing but the sentinel has
\* been written to the text mailbox, the chat collaborator has not been
\* invoked and the voice has said nothing; and the transcribe worker hands
\* to the text mailbox only a transcript with an alphanumeric character.
C20_InvalidTranscriptEndsTurnSilently ==
  initial_audio_data # None =>
    /\ TranscriptWasInvalid =>
         /\ lastSet["input"] = None
         /\ ~ChatInvoked
         /\ said = <<>>
    /\ pc["transcribe"] \in {"set", "set_wait", "set_woken", "poll"} =>
         /\ val["transcribe"] # None
         /\ HasAlnum(val["transcribe"])

\* C21: once the chat collaborator's sequence has ended, the batch is marked
\* complete exactly if a fragment was forwarded; and if the sequence raised,
\* every fragment yielded before the error has been handed to the voice
\* collaborator by the time the speak worker ends (no cancellation, no
\* error of the voice collaborator, the controller's scope not left).
C21_FragmentsBeforeErrorDelivered ==
  /\ (pc["chat"] \in {"poll", "done"} /\ cleanups = 0) =>
       (QIsBatchComplete(speech_queue) <=> chatYielded # <<>>)
  /\ ( /\ <<"chat_worker", "Chat Error">> \in logged
       /\ pc["speech"] = "done"
       /\ <<"speech_worker", "Exception">> \notin logged
       /\ ~cancel_requested
       /\ cleanups = 0 ) =>
       said = chatYielded

\* C22: a cycle whose transcribe worker called complete() on a transcript
\* with no usable word terminates: when nothing more can happen (no
\* cancellation, nothing thrown into the body), run_pipeline_cycle has
\* returned, every worker has ended and no error was raised out of the
\* scope.
C22_SilentTurnTerminates ==
  ( /\ TranscriptWasInvalid
    /\ ~cancel_requested
    /\ exitPath # "exception"
    /\ ~ENABLED Next ) =>
    /\ pc["main"] = "returned"
    /\ \A w \in Workers : Ended(w)

\* The first get a task made on a mailbox, as recorded.
FirstGetOf(t) ==
  LET own == SelectSeq(retLog, LAMBDA r : r.task = t) IN
    IF own = <<>> THEN <<>> ELSE <<Head(own)>>

\* C23: a value handed to a controller primitive is the value handed back,
\* whatever the order in which the producers ran: the first get_audio_data
\* returns the value set into the audio mailbox, the first get_input_text
\* the value set into the text mailbox, and the items removed from the
\* speech queue are, in order, the items put into it.
C23_ValueInIsValueOut ==
  /\ \A r \in {FirstGetOf("transcribe")[i] : i \in DOMAIN FirstGetOf("transcribe")} :
       nWrites["audio"] = 1 /\ r.value = lastSet["audio"]
  /\ \A r \in {FirstGetOf("chat")[i] : i \in DOMAIN FirstGetOf("chat")} :
       nWrites["input"] = 1 /\ r.value = lastSet["input"]
  /\ IsPrefix(ItemsOf(taken), ItemsOf(putSeq))

\* All three primitives have handed a value back, the speech queue after
\* the cancellation sentinel was put behind a fragment.
C23_Witness ==
  /\ FirstGetOf("transcribe") # <<>>
  /\ FirstGetOf("chat") # <<>>
  /\ taken # <<>>
  /\ taken[1].by = "get"
  /\ Len(putSeq) >= 2
  /\ putSeq[2].item = None

\* C24: a controller that has just been constructed, audio-seeded or
\* text-seeded, has neither flag set; is_cancellation_requested() and
\* is_completed() report the flags as they are; and a worker leaves its
\* polling loop, which asks the two accessors, only when a flag is set.
C24_FlagsUnsetAndReported ==
  [][ /\ (pc["main"] = "start" /\ pc'["main"] = "constructed") =>
           /\ ~cancel_requested' /\ ~completed'
           /\ ~IsCancellationRequested' /\ ~IsCompleted'
      /\ (IsCancellationRequested' <=> cancel_requested')
      /\ (IsCompleted' <=> completed')
      /\ \A t \in {"transcribe", "chat"} \cap DOMAIN pc :
           (pc[t] = "poll" /\ pc'[t] = "done") =>
             (completed \/ cancel_requested) ]_vars

\* A worker has polled a controller whose two flags differ, and has left
\* the loop on the cancellation flag alone.
C24_Witness ==
  /\ pc["chat"] = "done"
  /\ cancel_requested
  /\ ~completed
  /\ ~IsCompleted
  /\ IsCancellationRequested

\* C25, as claimed: put(x) never blocks and always appends x to the tail.
C25_PutAlwaysAppends ==
  [][ \A x \in Fragments :
        /\ qCalls < MaxCalls => ENABLED QsPut(x)
        /\ QsPut(x) =>
             /\ speech_queue'.queue = Append(speech_queue.queue, x)
             /\ pc' = pc ]_vars

\* C25, amended: put(x) never blocks; on a queue that is not closed it
\* appends x behind every item put earlier and not yet removed, and on a
\* closed queue it returns at once and leaves the queue as it is.
C25_PutAppendsUnlessClosed ==
  [][ \A x \in Fragments :
        /\ qCalls < MaxCalls => ENABLED QsPut(x)
        /\ QsPut(x) =>
             /\ speech_queue'.queue =
                  IF speech_queue.closed
                    THEN speech_queue.queue
                    ELSE Append(speech_queue.queue, x)
             /\ pc' = pc ]_vars

\* Two items were put and none removed: the second is behind the first.
C25_Witness ==
  /\ Len(putSeq) >= 2
  /\ taken = <<>>
  /\ ItemsOf(putSeq) = speech_queue.queue
  /\ ~speech_queue.closed

\* C26: after request_cancellation() every worker attached to the
\* controller ends by itself: when nothing more can happen (and nothing was
\* thrown into the body), no worker is suspended in a get or in a loop, and
\* none was cancelled by the task group.
C26_WorkersEndAfterCancellation ==
  ( /\ cancel_requested
    /\ exitPath # "exception"
    /\ ~ENABLED Next ) =>
    \A w \in Workers : pc[w] \in {"unborn", "done"}

\* C27: a worker whose get returned the cancellation sentinel aborts the
\* turn: the transcriber is never called with None, and the chat
\* collaborator is never called with None.
C27_SentinelNeverPassedOn ==
  /\ pc["transcribe"] = "transcribing" => val["transcribe"] # None
  /\ pc["chat"] = "chatting" => val["chat"] # None

\* The chat collaborator's sequence has ended, by error or normally,
\* without having yielded a fragment.
ChatEndedEmpty ==
  pc["chat"] \in {"poll", "done"} /\ chatYielded = <<>>

\* C28: once the chat collaborator's sequence has ended without a fragment,
\* the batch is not marked complete, no step of the speak worker sets the
\* completion flag, and unless cancellation was requested the completion
\* flag is not set.
C28_EmptyReplyNeverCompletes ==
  [][ /\ ChatEndedEmpty' =>
           /\ ~QIsBatchComplete(speech_queue')
           /\ ~cancel_requested' => ~completed'
      /\ (ChatEndedEmpty /\ (SpeechGet \/ SayReturn \/ SayRaise)) =>
           completed' = completed ]_vars

\* The sequence raised before its first fragment; the speak worker is
\* still waiting for an item on an unmarked queue and the turn is not
\* completed.
C28_Witness ==
  /\ ChatEndedEmpty
  /\ <<"chat_worker", "Chat Error">> \in logged
  /\ pc["speech"] = "qget"
  /\ speech_queue.queue = <<>>
  /\ ~cancel_requested
  /\ ~completed

C33_CycleReturnsWithoutInput ==
  ( /\ pc["input"] = "done"
    /\ nWrites["source"] = 0
    /\ logged = {}
    /\ exitPath # "exception"
    /\ ~ENABLED CycleSteps ) =>
    pc["main"] = "returned"

\* The name under which a worker logs.
WorkerName(t) ==
  CASE t = "input" -> "input_worker"
    [] t = "transcribe" -> "transcribe_worker"
    [] t = "chat" -> "chat_worker"
    [] OTHER -> "speech_worker"

\* C31: in every worker an error of its collaborator that is not a
\* cancellation is caught and logged inside the worker, whose task never
\* fails with it: the worker ends, or goes on to its polling loop; and a
\* worker that is cancelled re-raises the cancellation, so its task ends
\* with it.
C31_ErrorsCaughtCancellationRaised ==
  [][ \A t \in GroupTasks :
        /\ pc'[t] # "failed"
        /\ (\E e \in logged' \ logged : e[1] = WorkerName(t)) =>
             pc'[t] \in {"done", "poll"}
        /\ ( /\ exitPath = "none"
             /\ exitPath' = "exception"
             /\ pc[t] \notin {"unborn", "done"} ) =>
             pc'[t] = "cancelled" ]_vars

\* The transcriber raised, which the transcribe worker logged before it
\* ended, and the respond worker was cancelled afterwards.
C31_Witness ==
  /\ <<"transcribe_worker", "Exception">> \in logged
  /\ <<"input_worker", "Exception">> \notin logged
  /\ pc["transcribe"] = "done"
  /\ pc["input"] = "done"
  /\ pc["chat"] = "cancelled"
  /\ exitPath = "exception"

\* C32: after it has written a valid transcript to the text mailbox, the
\* transcribe worker returns only when the completion flag or the
\* cancellation flag is set, and whenever one of them is set its polling
\* loop can end.
C32_TranscribePollsUntilFlag ==
  [][ /\ (pc["transcribe"] = "poll" /\ pc'["transcribe"] = "done") =>
           (completed \/ cancel_requested)
      /\ (pc["transcribe"] = "poll" /\ (completed \/ cancel_requested)) =>
           ENABLED Poll("transcribe") ]_vars

\* The transcript was written, cancellation was requested while the worker
\* was polling, and the worker has returned with the turn not completed.
C32_Witness ==
  /\ pc["transcribe"] = "done"
  /\ nWrites["input"] = 1
  /\ lastSet["input"] \in Transcripts \ {None}
  /\ HasAlnum(lastSet["input"])
  /\ cancel_requested
  /\ ~completed

\* C34: no operation of the controller clears the completion flag or the
\* cancellation flag: once set, each stays set.
C34_FlagsNeverCleared ==
  [][ /\ completed => completed'
      /\ cancel_requested => cancel_requested' ]_vars

\* Both flags are set after complete() was called twice, cancellation was
\* requested and cleanup() has run.
C34_Witness ==
  /\ completed
  /\ cancel_requested
  /\ completeCalls >= 2
  /\ cleanups = 1

\* C35: request_cancellation() leaves the completion flag as it is; a task
\* suspended in wait_for_completion() cannot go on while the flag is unset,
\* cancelled or not; and the flag becomes set only in a step of complete()
\* or of cleanup().
C35_CancellationDoesNotRelease ==
  [][ /\ RequestCancellation => completed' = completed
      /\ \A w \in Waiters :
           (pc[w] = "waiting" /\ cancel_requested /\ ~completed) =>
             ~ENABLED CtlWaitReturn(w)
      /\ (~completed /\ completed') =>
           (completeCalls' = completeCalls + 1 \/ cleanups' = cleanups + 1)
    ]_vars

\* Cancellation was requested and its three tasks have run or are
\* suspended, while a task is still suspended in wait_for_completion().
C35_Witness ==
  /\ cancel_requested
  /\ ~completed
  /\ pc["w1"] = "waiting"
  /\ pc["cancel_speech"] = "done"
  /\ pc["cancel_input"] \in {"done", "set_wait"}
  /\ pc["cancel_audio"] \in {"done", "set_wait"}

C37_SentinelNeverSpoken ==
  /\ \A i \in DOMAIN said : said[i] # None
  /\ (\E i \in DOMAIN taken : taken[i].by = "get" /\ taken[i].item = None)
       => said = <<>>

\* The speak worker's get returned the sentinel; nothing was spoken and
\* the worker has ended.
C37_Witness ==
  /\ \E i \in DOMAIN taken : taken[i].by = "get" /\ taken[i].item = None
  /\ said = <<>>
  /\ pc["speech"] = "done"
  /\ chatYielded # <<>>

\* The gets that have returned to task t, as recorded.
GetsOf(t) ==
  SelectSeq(retLog, LAMBDA r : r.task = t)

\* The position of a worker while its collaborator is being called.
Invoking(t) ==
  IF t = "transcribe" THEN "transcribing" ELSE "chatting"

\* C38: for one controller the transcriber is invoked at most once and the
\* chat collaborator at most once: a worker starts to call its
\* collaborator only as its one and only get returns, whatever the other
\* workers, cancellation and completion do.
C38_SingleFlight ==
  [][ \A t \in {"transcribe", "chat"} :
        /\ Len(GetsOf(t)') <= 1
        /\ (pc'[t] = Invoking(t) /\ pc[t] # Invoking(t)) =>
             /\ pc[t] \in {"get", "get_woken"}
             /\ GetsOf(t) = <<>>
             /\ Len(GetsOf(t)') = 1 ]_vars

\* Both collaborators were invoked once in a turn that was cancelled, and
\* both workers have ended.
C38_Witness ==
  /\ Len(GetsOf("transcribe")) = 1
  /\ Len(GetsOf("chat")) = 1
  /\ pc["transcribe"] = "done"
  /\ pc["chat"] = "done"
  /\ cancel_requested
  /\ chatYielded # <<>>

\* C39: once the chat collaborator's sequence has ended, the respond worker
\* returns only when the completion flag or the cancellation flag is set,
\* and whenever one of them is set its polling loop can end; so when the
\* completion flag is set and nothing more can happen, no worker is left
\* in its polling loop.
C39_ChatPollsUntilFlag ==
  [][ /\ (pc["chat"] = "poll" /\ pc'["chat"] = "done") =>
           (completed \/ cancel_requested)
      /\ (pc["chat"] = "poll" /\ (completed \/ cancel_requested)) =>
           ENABLED Poll("chat")
      /\ (completed' /\ ~(ENABLED Next)') =>
           \A t \in {"transcribe", "chat"} : pc'[t] # "poll" ]_vars

\* The sequence ended normally after a fragment, cancellation was
\* requested while the worker was polling, and the worker has returned
\* with the turn not completed.
C39_Witness ==
  /\ pc["chat"] = "done"
  /\ chatYielded # <<>>
  /\ <<"chat_worker", "Chat Error">> \notin logged
  /\ cancel_requested
  /\ ~completed

====
